---- MODULE Spec2Model ----
(***************************************************************************)
(* visgression (src/main.rs): reads per-(map, version) averaged benchmark  *)
(* samples from a regression database, aggregates them into per-checkpoint *)
(* version chains and renders one chart per chain and per map.             *)
(*                                                                         *)
(* f64 metrics are modelled by integers; a mean (sum / count as f64) is    *)
(* kept as the fraction sum / count in lowest terms, [num, den]; a         *)
(* division by zero keeps den = 0 (NaN for 0 / 0, infinity otherwise).     *)
(***************************************************************************)
EXTENDS Integers, Sequences, FiniteSets, TLC

VARIABLES
    \* ---- main / query_db / aggregate_maps ----
    pc,                 \* position of main
    fault,              \* "none", or the fault that ended the run
    db_rows,            \* the rows the SQL statement yields (input)
    row_idx,            \* rows pulled from the MappedRows iterator so far
    map_name_to_post_link,
    maps,               \* query_db's local `maps`, then main's `maps`
    aggregation_versions,
    checkpoints,
    cp_idx,             \* checkpoints already processed by the bucket loop
    checkpoint_buckets,
    info_buckets,
    maps_per_checkpoint_inner_fv,   \* the HashMap of the latest loop iteration
    aggregation,        \* aggregate_maps' return value: checkpoint -> (cohort, series)
    aggr_idx,           \* entries of aggregation already charted
    map_idx,            \* maps already charted
    html_emitters,
    svgs,               \* the SVG files on disk
    html,               \* number of HTML lines printed
    \* ---- iter_factorio_versions / gen_svg's axis ----
    axis_pc,
    all_ord_fv,
    cur_fv,
    versions_data_keys, \* key set of gen_svg's versions_data
    fvs                 \* gen_svg's axis after retain

mainvars == <<pc, fault, db_rows, row_idx, map_name_to_post_link, maps,
              aggregation_versions, checkpoints, cp_idx, checkpoint_buckets,
              info_buckets, maps_per_checkpoint_inner_fv, aggregation,
              aggr_idx, map_idx, html_emitters, svgs, html>>

axisvars == <<axis_pc, all_ord_fv, cur_fv, versions_data_keys, fvs>>

vars == <<mainvars, axisvars>>

----------------------------------------------------------------------------
(* FactorioVersion and its order *)

FactorioVersion(ma, mi, pa) == [major |-> ma, minor |-> mi, patch |-> pa]

\* The order of FactorioVersion: lexicographic on (major, minor, patch).
FvLess(a, b) ==
    \/ a.major < b.major
    \/ a.major = b.major /\ a.minor < b.minor
    \/ a.major = b.major /\ a.minor = b.minor /\ a.patch < b.patch

FvLeq(a, b) == a = b \/ FvLess(a, b)

LAST_MINOR_VERSIONS == {FactorioVersion(0, 16, 51), FactorioVersion(0, 17, 79)}

START_GRAPH_FV == FactorioVersion(0, 17, 66)

END_GRAPH_FV == FactorioVersion(0, 18, 45)

\* The elements of a sequence.
Elems(s) == {s[i] : i \in 1..Len(s)}

----------------------------------------------------------------------------
(* iter_factorio_versions, one loop step per action, and the retain of     *)
(* gen_svg that consumes its result.                                       *)

\* Versions that pass query_db's range check and may key a series.
AxisKeyVersions ==
    {START_GRAPH_FV, FactorioVersion(0, 17, 79), FactorioVersion(0, 17, 80),
     FactorioVersion(0, 18, 0), END_GRAPH_FV}

\* all_ord_fv.push(cur_fv)
AxisPush ==
    /\ axis_pc = "push"
    /\ all_ord_fv' = Append(all_ord_fv, cur_fv)
    /\ axis_pc' = "advance"
    /\ UNCHANGED <<cur_fv, versions_data_keys, fvs, mainvars>>

AdvanceMutNoReset(fv) ==
    IF fv \in LAST_MINOR_VERSIONS
    THEN [fv EXCEPT !.minor = @ + 1]
    ELSE [fv EXCEPT !.patch = @ + 1]

\* if LAST_MINOR_VERSIONS.contains(&cur_fv) { minor += 1; patch = 0 } else { patch += 1 }
Advance(fv) ==
    IF fv \in LAST_MINOR_VERSIONS
    THEN [fv EXCEPT !.minor = @ + 1, !.patch = 0]
    ELSE [fv EXCEPT !.patch = @ + 1]

AxisAdvance ==
    /\ axis_pc = "advance"
    /\ cur_fv' = Advance(cur_fv)
    /\ axis_pc' = "check"
    /\ UNCHANGED <<all_ord_fv, versions_data_keys, fvs, mainvars>>

\* if cur_fv > END_GRAPH_FV { break; }
AxisBreak(fv) == FvLess(END_GRAPH_FV, fv)

AxisCheck ==
    /\ axis_pc = "check"
    /\ axis_pc' = IF AxisBreak(cur_fv) THEN "retain" ELSE "push"
    /\ UNCHANGED <<all_ord_fv, cur_fv, versions_data_keys, fvs, mainvars>>

\* fvs.retain(|fv| versions_data.contains_key(&fv))
Retain(s, keys) == SelectSeq(s, LAMBDA fv : fv \in keys)

AxisRetain ==
    /\ axis_pc = "retain"
    /\ fvs' = Retain(all_ord_fv, versions_data_keys)
    /\ axis_pc' = "done"
    /\ UNCHANGED <<all_ord_fv, cur_fv, versions_data_keys, mainvars>>

----------------------------------------------------------------------------
(* MapInfo, AvgData and the ordered iteration of BTreeMap *)

MapInfo(name, sha) == [map_name |-> name, sha256 |-> sha]

\* #[derive(PartialOrd, Ord)] on MapInfo: map_name first, then sha256.
MapInfoLess(a, b) ==
    \/ a.map_name < b.map_name
    \/ a.map_name = b.map_name /\ a.sha256 < b.sha256

AvgData(w, c, t, f, e, el, l, tr, tp) ==
    [wholeUpdate |-> w, circuitNetworkUpdate |-> c, transportLinesUpdate |-> t,
     fluidsUpdate |-> f, entityUpdate |-> e, electricNetworkUpdate |-> el,
     logisticManagerUpdate |-> l, trains |-> tr, trainPathFinder |-> tp]

Metrics == {"wholeUpdate", "circuitNetworkUpdate", "transportLinesUpdate",
            "fluidsUpdate", "entityUpdate", "electricNetworkUpdate",
            "logisticManagerUpdate", "trains", "trainPathFinder"}

\* #[derive(Default)] on AvgData
AvgDataDefault == AvgData(0, 0, 0, 0, 0, 0, 0, 0, 0)

\* impl AddAssign for AvgData
AddAssign(self, other) == [k \in Metrics |-> self[k] + other[k]]

EmptyMap == [k \in {} |-> 0]

\* BTreeMap iteration: the keys in ascending order.
RECURSIVE SortedFvs(_)
SortedFvs(S) ==
    IF S = {} THEN <<>>
    ELSE LET lo == CHOOSE x \in S : \A y \in S : FvLeq(x, y)
         IN  <<lo>> \o SortedFvs(S \ {lo})

RECURSIVE SortedInfos(_)
SortedInfos(S) ==
    IF S = {} THEN <<>>
    ELSE LET lo == CHOOSE x \in S : \A y \in S : x = y \/ MapInfoLess(x, y)
         IN  <<lo>> \o SortedInfos(S \ {lo})

\* *counts.entry(k).or_insert(0) += 1
Increment(counts, k) ==
    IF k \in DOMAIN counts THEN [counts EXCEPT ![k] = @ + 1] ELSE counts @@ (k :> 1)

\* info_buckets.entry(checkpoint_fv).or_default().push(info.clone())
PushInfo(infos, checkpoint_fv, info) ==
    IF checkpoint_fv \in DOMAIN infos
    THEN [infos EXCEPT ![checkpoint_fv] = Append(@, info)]
    ELSE infos @@ (checkpoint_fv :> <<info>>)

----------------------------------------------------------------------------
(* aggregate_maps *)

\* for fv in versions_data.keys() { *aggregation_versions.entry(*fv).or_insert(0) += 1; }
RECURSIVE CountKeys(_, _)
CountKeys(keys, acc) ==
    IF keys = <<>> THEN acc
    ELSE CountKeys(Tail(keys), Increment(acc, Head(keys)))

\* for versions_data in maps.values() { ... }
RECURSIVE CountValues(_, _, _)
CountValues(table, infos, acc) ==
    IF infos = <<>> THEN acc
    ELSE CountValues(table, Tail(infos),
                     CountKeys(SortedFvs(DOMAIN table[Head(infos)]), acc))

IsNewCheckpointMutGeq(prev_seen_ct, ct) == prev_seen_ct <= ct

\* if prev_seen_ct < ct
IsNewCheckpoint(prev_seen_ct, ct) == prev_seen_ct < ct

\* for (fv, ct) in aggregation_versions { if prev_seen_ct < ct { ... } }
RECURSIVE ScanCheckpoints(_, _, _, _)
ScanCheckpoints(agg, keys, prev_seen_ct, acc) ==
    IF keys = <<>> THEN acc
    ELSE LET fv == Head(keys)
             ct == agg[fv]
         IN  IF IsNewCheckpoint(prev_seen_ct, ct)
             THEN ScanCheckpoints(agg, Tail(keys), ct, Append(acc, fv))
             ELSE ScanCheckpoints(agg, Tail(keys), prev_seen_ct, acc)

SkipVersionMutLeq(fv, checkpoint_fv) == FvLeq(fv, checkpoint_fv)

\* if fv < &checkpoint_fv { continue; }
SkipVersion(fv, checkpoint_fv) == FvLess(fv, checkpoint_fv)

\* *checkpoint_buckets.entry(checkpoint_fv).or_default().entry(*fv).or_default() += *avg
AddToBucket(buckets, checkpoint_fv, fv, avg) ==
    LET bucket == IF checkpoint_fv \in DOMAIN buckets THEN buckets[checkpoint_fv]
                  ELSE EmptyMap
        dat == IF fv \in DOMAIN bucket THEN bucket[fv] ELSE AvgDataDefault
        updated == IF fv \in DOMAIN bucket
                   THEN [bucket EXCEPT ![fv] = AddAssign(dat, avg)]
                   ELSE bucket @@ (fv :> AddAssign(dat, avg))
    IN  IF checkpoint_fv \in DOMAIN buckets
        THEN [buckets EXCEPT ![checkpoint_fv] = updated]
        ELSE buckets @@ (checkpoint_fv :> updated)

\* for (fv, avg) in versions_data { ... } : the per-version count and the sum
RECURSIVE AddVersions(_, _, _, _)
AddVersions(checkpoint_fv, versions_data, keys, st) ==
    IF keys = <<>> THEN st
    ELSE LET fv == Head(keys)
             avg == versions_data[fv]
         IN  IF SkipVersion(fv, checkpoint_fv)
             THEN AddVersions(checkpoint_fv, versions_data, Tail(keys), st)
             ELSE AddVersions(checkpoint_fv, versions_data, Tail(keys),
                    [st EXCEPT
                       !.counts = Increment(@, fv),
                       !.buckets = AddToBucket(@, checkpoint_fv, fv, avg)])

InCohortMutAll(versions_data, checkpoint_fv) == TRUE

\* !versions_data.contains_key(&checkpoint_fv) => continue
InCohort(versions_data, checkpoint_fv) == checkpoint_fv \in DOMAIN versions_data

\* for (info, versions_data) in maps { ... }
RECURSIVE AddMaps(_, _, _, _)
AddMaps(checkpoint_fv, table, infos, st) ==
    IF infos = <<>> THEN st
    ELSE LET info == Head(infos)
             versions_data == table[info]
         IN  IF ~InCohort(versions_data, checkpoint_fv)
             THEN AddMaps(checkpoint_fv, table, Tail(infos), st)
             ELSE AddMaps(checkpoint_fv, table, Tail(infos),
                    AddVersions(checkpoint_fv, versions_data,
                       SortedFvs(DOMAIN versions_data),
                       [st EXCEPT !.infos = PushInfo(@, checkpoint_fv, info)]))

RECURSIVE Gcd(_, _)
Gcd(a, b) == IF b = 0 THEN a ELSE Gcd(b, a % b)

\* sum / count as f64: the quotient in lowest terms; x / 0 is not finite.
Div(x, n) ==
    IF n = 0 THEN [num |-> IF x = 0 THEN 0 ELSE 1, den |-> 0]
    ELSE LET g == Gcd(x, n) IN
         IF g = 0 THEN [num |-> 0, den |-> 1]
         ELSE [num |-> x \div g, den |-> n \div g]

\* *dat = AvgData { wholeUpdate: dat.wholeUpdate / n as f64, ... }
DivideAll(dat, n) == [k \in Metrics |-> Div(dat[k], n)]

\* the `for checkpoint_fv in checkpoints` body up to the averaging: the cohort
\* list, the sums and the per-version counts of one checkpoint
SumCheckpoint(checkpoint_fv, table, infos, buckets) ==
    AddMaps(checkpoint_fv, table, SortedInfos(DOMAIN table),
            [infos |-> infos, buckets |-> buckets, counts |-> EmptyMap])

\* the unwrap() calls of the averaging loop find their entries
UnwrapsSucceed(checkpoint_fv, st) ==
    /\ checkpoint_fv \in DOMAIN st.buckets
    /\ \A fv \in DOMAIN st.buckets[checkpoint_fv] : fv \in DOMAIN st.counts

TransformToAvgMutCohortSize(checkpoint_fv, st) ==
    [st.buckets EXCEPT ![checkpoint_fv] =
        [fv \in DOMAIN @ |-> DivideAll(@[fv], Len(st.infos[checkpoint_fv]))]]

\* for (fv, dat) in checkpoint_buckets.get_mut(&checkpoint_fv).unwrap() { ... }
TransformToAvg(checkpoint_fv, st) ==
    [st.buckets EXCEPT ![checkpoint_fv] =
        [fv \in DOMAIN @ |-> DivideAll(@[fv], st.counts[fv])]]

FindCheckpointsMutSeeded(agg) ==
    ScanCheckpoints(agg, SortedFvs(DOMAIN agg), 0, <<START_GRAPH_FV>>)

\* let mut prev_seen_ct = 0; let mut checkpoints = Vec::new(); for ... { }
FindCheckpoints(agg) == ScanCheckpoints(agg, SortedFvs(DOMAIN agg), 0, <<>>)

Min(a, b) == IF a < b THEN a ELSE b

ZipBucketsMutReversed(infos, buckets) ==
    LET ik == SortedFvs(DOMAIN infos)
        ck == SortedFvs(DOMAIN buckets)
        n  == Min(Len(ik), Len(ck))
    IN  [fv \in {ik[i] : i \in 1..n} |->
            LET i == CHOOSE j \in 1..n : ik[j] = fv
            IN  [infos |-> infos[ik[i]], series |-> buckets[ck[n + 1 - i]]]]

\* info_buckets.into_iter().zip(checkpoint_buckets).map(..).collect()
ZipBuckets(infos, buckets) ==
    LET ik == SortedFvs(DOMAIN infos)
        ck == SortedFvs(DOMAIN buckets)
        n  == Min(Len(ik), Len(ck))
    IN  [fv \in {ik[i] : i \in 1..n} |->
            LET i == CHOOSE j \in 1..n : ik[j] = fv
            IN  [infos |-> infos[ik[i]], series |-> buckets[ck[i]]]]

AggCount ==
    /\ pc = "aggregate"
    /\ aggregation_versions' = CountValues(maps, SortedInfos(DOMAIN maps), EmptyMap)
    /\ pc' = "checkpoints"
    /\ UNCHANGED <<fault, db_rows, row_idx, map_name_to_post_link, maps,
                   checkpoints, cp_idx, checkpoint_buckets, info_buckets,
                   maps_per_checkpoint_inner_fv, aggregation, aggr_idx,
                   map_idx, html_emitters, svgs, html, axisvars>>

AggCheckpoints ==
    /\ pc = "checkpoints"
    /\ checkpoints' = FindCheckpoints(aggregation_versions)
    /\ cp_idx' = 0
    /\ pc' = "buckets"
    /\ UNCHANGED <<fault, db_rows, row_idx, map_name_to_post_link, maps,
                   aggregation_versions, checkpoint_buckets, info_buckets,
                   maps_per_checkpoint_inner_fv, aggregation, aggr_idx,
                   map_idx, html_emitters, svgs, html, axisvars>>

\* one iteration of `for checkpoint_fv in checkpoints`
AggBucket ==
    /\ pc = "buckets"
    /\ cp_idx < Len(checkpoints)
    /\ LET checkpoint_fv == checkpoints[cp_idx + 1]
           st == SumCheckpoint(checkpoint_fv, maps, info_buckets, checkpoint_buckets)
       IN  /\ info_buckets' = st.infos
           /\ maps_per_checkpoint_inner_fv' = st.counts
           /\ IF UnwrapsSucceed(checkpoint_fv, st)
              THEN /\ checkpoint_buckets' = TransformToAvg(checkpoint_fv, st)
                   /\ cp_idx' = cp_idx + 1
                   /\ UNCHANGED <<pc, fault>>
              ELSE /\ checkpoint_buckets' = st.buckets
                   /\ pc' = "fault"
                   /\ fault' = "UnwrapNone"
                   /\ UNCHANGED cp_idx
    /\ UNCHANGED <<db_rows, row_idx, map_name_to_post_link, maps,
                   aggregation_versions, checkpoints, aggregation, aggr_idx,
                   map_idx, html_emitters, svgs, html, axisvars>>

\* the zip and the return of aggregate_maps
AggZip ==
    /\ pc = "buckets"
    /\ cp_idx = Len(checkpoints)
    /\ aggregation' = ZipBuckets(info_buckets, checkpoint_buckets)
    /\ pc' = "emit_aggr"
    /\ UNCHANGED <<fault, db_rows, row_idx, map_name_to_post_link, maps,
                   aggregation_versions, checkpoints, cp_idx,
                   checkpoint_buckets, info_buckets,
                   maps_per_checkpoint_inner_fv, aggr_idx, map_idx,
                   html_emitters, svgs, html, axisvars>>

----------------------------------------------------------------------------
(* Inputs *)

NumMaps == 3

MaxScale == 2

\* The i-th map; maps 2 and 3 share a name and differ in their hash.
MapInfoOf(i) == MapInfo((i \div 2) + 1, (i % 2) + 1)

TableVersions ==
    {START_GRAPH_FV, FactorioVersion(0, 17, 79), FactorioVersion(0, 18, 0)}

\* The averaged metrics of map i at version fv, scaled by s.
SampleData(i, fv, s) ==
    AvgData(20 * s + i + fv.patch, i, fv.minor, s, i * (fv.patch + 1), i + s,
            1, 0, 2 * i)

\* The SampleTable holding, for each map index of ks, the versions ks gives it.
TableOf(ks, s) ==
    [m \in {MapInfoOf(i) : i \in DOMAIN ks} |->
        LET i == CHOOSE j \in DOMAIN ks : MapInfoOf(j) = m
        IN  [fv \in ks[i] |-> SampleData(i, fv, s)]]

AxisIdle ==
    /\ axis_pc = "idle"
    /\ all_ord_fv = <<>>
    /\ cur_fv = START_GRAPH_FV
    /\ versions_data_keys = {}
    /\ fvs = <<>>

MainIdle ==
    /\ fault = "none"
    /\ db_rows = <<>>
    /\ row_idx = 0
    /\ map_name_to_post_link = EmptyMap
    /\ maps = EmptyMap
    /\ aggregation_versions = EmptyMap
    /\ checkpoints = <<>>
    /\ cp_idx = 0
    /\ checkpoint_buckets = EmptyMap
    /\ info_buckets = EmptyMap
    /\ maps_per_checkpoint_inner_fv = EmptyMap
    /\ aggregation = EmptyMap
    /\ aggr_idx = 0
    /\ map_idx = 0
    /\ html_emitters = <<>>
    /\ svgs = {}
    /\ html = 0

----------------------------------------------------------------------------
(* aggregate_maps on every bounded SampleTable *)

AggrInit ==
    /\ AxisIdle
    /\ pc = "aggregate"
    /\ fault = "none"
    /\ db_rows = <<>>
    /\ row_idx = 0
    /\ map_name_to_post_link = EmptyMap
    /\ \E present \in SUBSET (1..NumMaps), s \in 1..MaxScale :
         \E ks \in [present -> (SUBSET TableVersions) \ {{}}] :
            maps = TableOf(ks, s)
    /\ aggregation_versions = EmptyMap
    /\ checkpoints = <<>>
    /\ cp_idx = 0
    /\ checkpoint_buckets = EmptyMap
    /\ info_buckets = EmptyMap
    /\ maps_per_checkpoint_inner_fv = EmptyMap
    /\ aggregation = EmptyMap
    /\ aggr_idx = 0
    /\ map_idx = 0
    /\ html_emitters = <<>>
    /\ svgs = {}
    /\ html = 0

AggrNext == AggCount \/ AggCheckpoints \/ AggBucket \/ AggZip

AggrSpec == AggrInit /\ [][AggrNext]_vars

----------------------------------------------------------------------------
(* The reference axis *)

AxisInit ==
    /\ pc = "idle"
    /\ MainIdle
    /\ axis_pc = "push"
    /\ all_ord_fv = <<>>
    /\ cur_fv = START_GRAPH_FV
    /\ versions_data_keys \in SUBSET AxisKeyVersions
    /\ fvs = <<>>

AxisNext == AxisPush \/ AxisAdvance \/ AxisCheck \/ AxisRetain

AxisSpec == AxisInit /\ [][AxisNext]_vars /\ WF_vars(AxisNext)

----------------------------------------------------------------------------
(* main: metadata fetch, query_db, the charts and the HTML *)

MaxRows == 3

\* A string of dot-separated numbers is the sequence of its numbers:
\* fv.to_string()
FvToString(fv) == <<fv.major, fv.minor, fv.patch>>

\* FactorioVersion::try_from(&str) succeeds on three numbers
TryFromOk(str) == Len(str) = 3

TryFrom(str) == FactorioVersion(str[1], str[2], str[3])

\* The factorio_version column of a row: text or not, and the text.
VersionColumns ==
    {[is_text |-> TRUE, version |-> v] :
        v \in {<<0, 16, 50>>, <<0, 17, 66>>, <<0, 18, 45>>, <<0, 18, 46>>, <<0, 17>>}}
    \cup {[is_text |-> FALSE, version |-> <<>>]}

\* The scenarios of the database: their index is their scenario_ID.
RowMaps == {1, 2}

RowUniverse == {[col0 |-> c, map |-> i] : c \in VersionColumns, i \in RowMaps}

\* order by scenario_ID
OrderedByScenario(rows) ==
    \A i, j \in 1..Len(rows) : i < j => rows[i].map <= rows[j].map

\* The megabase listings the fetch may return: name -> source link.
MegabaseLists ==
    {[n \in names |-> n + 100] : names \in SUBSET {MapInfoOf(i).map_name : i \in RowMaps}}

Arrest(kind) ==
    /\ pc' = "fault"
    /\ fault' = kind

\* main, lines 309-323: no path argument prints the usage and exits.
MainArgs ==
    /\ pc = "args"
    /\ \E has_path \in BOOLEAN :
          pc' = IF has_path THEN "fetch" ELSE "usage_exit"
    /\ UNCHANGED <<fault, db_rows, row_idx, map_name_to_post_link, maps,
                   aggregation_versions, checkpoints, cp_idx,
                   checkpoint_buckets, info_buckets,
                   maps_per_checkpoint_inner_fv, aggregation, aggr_idx,
                   map_idx, html_emitters, svgs, html, axisvars>>

\* fetch_megabase_list()? and the fill of map_name_to_post_link
FetchMegabaseList ==
    /\ pc = "fetch"
    /\ \/ /\ Arrest("MetadataFetchFailed")
          /\ UNCHANGED map_name_to_post_link
       \/ /\ map_name_to_post_link' \in MegabaseLists
          /\ pc' = "query_open"
          /\ UNCHANGED fault
    /\ UNCHANGED <<db_rows, row_idx, maps, aggregation_versions, checkpoints,
                   cp_idx, checkpoint_buckets, info_buckets,
                   maps_per_checkpoint_inner_fv, aggregation, aggr_idx,
                   map_idx, html_emitters, svgs, html, axisvars>>

\* query_db up to query_map: the database must exist, open and prepare
QueryOpen ==
    /\ pc = "query_open"
    /\ \/ Arrest("RepositoryUnavailable")
       \/ Arrest("SqlError")
       \/ pc' = "query_rows" /\ UNCHANGED fault
    /\ UNCHANGED <<db_rows, row_idx, map_name_to_post_link, maps,
                   aggregation_versions, checkpoints, cp_idx,
                   checkpoint_buckets, info_buckets,
                   maps_per_checkpoint_inner_fv, aggregation, aggr_idx,
                   map_idx, html_emitters, svgs, html, axisvars>>

InRangeMutNoLowerBound(fv) == FvLeq(fv, END_GRAPH_FV)

\* assert!(fv <= END_GRAPH_FV); assert!(fv >= START_GRAPH_FV)
InRange(fv) == FvLeq(fv, END_GRAPH_FV) /\ FvLeq(START_GRAPH_FV, fv)

\* maps.entry(map_info).or_insert_with(BTreeMap::new).insert(fv, data)
InsertRow(table, info, fv, data) ==
    LET entry == IF info \in DOMAIN table THEN table[info] ELSE EmptyMap
        inserted == IF fv \in DOMAIN entry THEN [entry EXCEPT ![fv] = data]
                    ELSE entry @@ (fv :> data)
    IN  IF info \in DOMAIN table THEN [table EXCEPT ![info] = inserted]
        ELSE table @@ (info :> inserted)

\* one turn of `for mapped_row in data`: the row closure, then the insert
QueryRow ==
    /\ pc = "query_rows"
    /\ row_idx < Len(db_rows)
    /\ row_idx' = row_idx + 1
    /\ LET row == db_rows[row_idx + 1] IN
       IF ~row.col0.is_text
       THEN Arrest("SqlError") /\ UNCHANGED maps
       ELSE IF ~TryFromOk(row.col0.version)
       THEN Arrest("MalformedVersion") /\ UNCHANGED maps
       ELSE LET fv == TryFrom(row.col0.version) IN
            IF ~InRange(fv)
            THEN Arrest("OutOfRangeVersion") /\ UNCHANGED maps
            ELSE \/ Arrest("SqlError") /\ UNCHANGED maps
                 \/ /\ maps' = InsertRow(maps, MapInfoOf(row.map), fv,
                                         SampleData(row.map, fv, row_idx + 1))
                    /\ UNCHANGED <<pc, fault>>
    /\ UNCHANGED <<db_rows, map_name_to_post_link, aggregation_versions,
                   checkpoints, cp_idx, checkpoint_buckets, info_buckets,
                   maps_per_checkpoint_inner_fv, aggregation, aggr_idx,
                   map_idx, html_emitters, svgs, html, axisvars>>

\* Ok(maps)
QueryReturn ==
    /\ pc = "query_rows"
    /\ row_idx = Len(db_rows)
    /\ pc' = "aggregate"
    /\ UNCHANGED <<fault, db_rows, row_idx, map_name_to_post_link, maps,
                   aggregation_versions, checkpoints, cp_idx,
                   checkpoint_buckets, info_buckets,
                   maps_per_checkpoint_inner_fv, aggregation, aggr_idx,
                   map_idx, html_emitters, svgs, html, axisvars>>

\* gen_svg's savefile: fv.to_string() + ".svg", or the first map's name + ".svg"
SaveFile(is_collective, fv, map_infos) ==
    IF is_collective THEN FvToString(fv) ELSE <<map_infos[1].map_name>>

\* "Maps beginning with " + &fv.to_string(), or the map's name without ".zip"
SelListName(is_collective, fv, map_infos) ==
    IF is_collective THEN <<0>> \o FvToString(fv) ELSE <<map_infos[1].map_name>>

\* the post-link lookups: map_name_to_post_link.get(&x.map_name).unwrap()
LinksKnown(map_infos) ==
    \A i \in 1..Len(map_infos) : map_infos[i].map_name \in DOMAIN map_name_to_post_link

ExtDescr(map_infos) ==
    [i \in 1..Len(map_infos) |->
        <<map_name_to_post_link[map_infos[i].map_name], map_infos[i].map_name>>]

\* gen_svg and the HtmlEmitter built from its result. The chart either fails
\* before the file exists (load_data or save), or the file is saved and its
\* rewrite fails, or gen_svg returns the path; then the links are looked up.
\* The axis gen_svg draws (iter_factorio_versions and the retain) is stepped
\* through on its own by AxisSpec.
Chart(is_collective, fv, map_infos, at_front) ==
    LET savefile == SaveFile(is_collective, fv, map_infos)
        template == [svg |-> savefile,
                     sel_list_name |-> SelListName(is_collective, fv, map_infos),
                     ext_descr |-> ExtDescr(map_infos)]
    IN  \/ Arrest("ChartFailed") /\ UNCHANGED <<svgs, html_emitters>>
        \/ /\ Arrest("FileIoFailed")
           /\ svgs' = svgs \cup {savefile}
           /\ UNCHANGED html_emitters
        \/ /\ svgs' = svgs \cup {savefile}
           /\ IF LinksKnown(map_infos)
              THEN /\ html_emitters' = IF at_front
                                       THEN <<template>> \o html_emitters
                                       ELSE Append(html_emitters, template)
                   /\ UNCHANGED <<pc, fault>>
              ELSE /\ Arrest("MissingMetadata")
                   /\ UNCHANGED html_emitters

\* one turn of `for (fv, (map_info, avg_data)) in aggregation`
EmitAggregation ==
    /\ pc = "emit_aggr"
    /\ aggr_idx < Cardinality(DOMAIN aggregation)
    /\ aggr_idx' = aggr_idx + 1
    /\ LET fv == SortedFvs(DOMAIN aggregation)[aggr_idx + 1]
       IN  Chart(TRUE, fv, aggregation[fv].infos, FALSE)
    /\ UNCHANGED <<db_rows, row_idx, map_name_to_post_link, maps,
                   aggregation_versions, checkpoints, cp_idx,
                   checkpoint_buckets, info_buckets,
                   maps_per_checkpoint_inner_fv, aggregation, map_idx, html,
                   axisvars>>

EmitAggregationDone ==
    /\ pc = "emit_aggr"
    /\ aggr_idx = Cardinality(DOMAIN aggregation)
    /\ pc' = "emit_maps"
    /\ UNCHANGED <<fault, db_rows, row_idx, map_name_to_post_link, maps,
                   aggregation_versions, checkpoints, cp_idx,
                   checkpoint_buckets, info_buckets,
                   maps_per_checkpoint_inner_fv, aggregation, aggr_idx,
                   map_idx, html_emitters, svgs, html, axisvars>>

\* one turn of `for data in maps`
EmitMap ==
    /\ pc = "emit_maps"
    /\ map_idx < Cardinality(DOMAIN maps)
    /\ map_idx' = map_idx + 1
    /\ LET info == SortedInfos(DOMAIN maps)[map_idx + 1]
       IN  Chart(FALSE, START_GRAPH_FV, <<info>>, TRUE)
    /\ UNCHANGED <<db_rows, row_idx, map_name_to_post_link, maps,
                   aggregation_versions, checkpoints, cp_idx,
                   checkpoint_buckets, info_buckets,
                   maps_per_checkpoint_inner_fv, aggregation, aggr_idx, html,
                   axisvars>>

RECURSIVE SlideLines(_)
SlideLines(emitters) ==
    IF emitters = <<>> THEN 0
    ELSE (IF Head(emitters).ext_descr = <<>> THEN 3
          ELSE 5 + Len(Head(emitters).ext_descr))
         + SlideLines(Tail(emitters))

\* the eprintln! lines of the select list and of the slides
EmitHtml ==
    /\ pc = "emit_maps"
    /\ map_idx = Cardinality(DOMAIN maps)
    /\ html' = 2 + Len(html_emitters) + 2 + SlideLines(html_emitters)
    /\ pc' = "done"
    /\ UNCHANGED <<fault, db_rows, row_idx, map_name_to_post_link, maps,
                   aggregation_versions, checkpoints, cp_idx,
                   checkpoint_buckets, info_buckets,
                   maps_per_checkpoint_inner_fv, aggregation, aggr_idx,
                   map_idx, html_emitters, svgs>> /\ UNCHANGED axisvars

Init ==
    /\ AxisIdle
    /\ pc = "args"
    /\ fault = "none"
    /\ \E n \in 0..MaxRows :
          /\ db_rows \in [1..n -> RowUniverse]
          /\ OrderedByScenario(db_rows)
    /\ row_idx = 0
    /\ map_name_to_post_link = EmptyMap
    /\ maps = EmptyMap
    /\ aggregation_versions = EmptyMap
    /\ checkpoints = <<>>
    /\ cp_idx = 0
    /\ checkpoint_buckets = EmptyMap
    /\ info_buckets = EmptyMap
    /\ maps_per_checkpoint_inner_fv = EmptyMap
    /\ aggregation = EmptyMap
    /\ aggr_idx = 0
    /\ map_idx = 0
    /\ html_emitters = <<>>
    /\ svgs = {}
    /\ html = 0

Next ==
    \/ MainArgs
    \/ FetchMegabaseList
    \/ QueryOpen
    \/ QueryRow
    \/ QueryReturn
    \/ AggCount
    \/ AggCheckpoints
    \/ AggBucket
    \/ AggZip
    \/ EmitAggregation
    \/ EmitAggregationDone
    \/ EmitMap
    \/ EmitHtml

Spec == Init /\ [][Next]_vars

----------------------------------------------------------------------------
(* What the claims speak of, stated on the SampleTable itself *)

\* The maps holding a sample at version v.
Holders(v) == {m \in DOMAIN maps : v \in DOMAIN maps[m]}

\* The versions present in the table.
Present == UNION {DOMAIN maps[m] : m \in DOMAIN maps}

\* aggregate_maps has found its checkpoints.
CheckpointsKnown == pc \in {"buckets", "emit_aggr"}

\* aggregate_maps has returned.
Returned == pc = "emit_aggr"

\* The checkpoints whose bucket loop iteration is complete.
Processed == {checkpoints[i] : i \in 1..cp_idx}

RECURSIVE SumOf(_, _, _)
SumOf(S, v, k) ==
    IF S = {} THEN 0
    ELSE LET m == CHOOSE x \in S : TRUE
         IN  maps[m][v][k] + SumOf(S \ {m}, v, k)

\* The earliest sampled version of map m.
Earliest(m) == CHOOSE v \in DOMAIN maps[m] : \A u \in DOMAIN maps[m] : FvLeq(v, u)

M1Versions == TableVersions

M2Versions == {FactorioVersion(0, 17, 79), FactorioVersion(0, 18, 0)}

\* The table of the spec's example: M1 sampled at 0.17.66, 0.17.79 and 0.18.0,
\* M2 at 0.17.79 and 0.18.0.
IsExampleTable ==
    \E m1, m2 \in DOMAIN maps :
        /\ m1 # m2
        /\ DOMAIN maps = {m1, m2}
        /\ DOMAIN maps[m1] = M1Versions
        /\ DOMAIN maps[m2] = M2Versions

\* C1: a version is a checkpoint exactly when more maps hold a sample at it
\* than at every smaller version of the table (and at least one does); the
\* checkpoint list increases strictly in version and in map count; the example
\* table has the checkpoints [0.17.66, 0.17.79].
C1_CheckpointDiscovery ==
    CheckpointsKnown =>
        /\ Elems(checkpoints) \subseteq Present
        /\ \A v \in Present :
              v \in Elems(checkpoints) <=>
                 /\ Cardinality(Holders(v)) > 0
                 /\ \A u \in Present :
                       FvLess(u, v) => Cardinality(Holders(u)) < Cardinality(Holders(v))
        /\ \A i, j \in 1..Len(checkpoints) :
              i < j => /\ FvLess(checkpoints[i], checkpoints[j])
                       /\ Cardinality(Holders(checkpoints[i]))
                            < Cardinality(Holders(checkpoints[j]))
        /\ IsExampleTable =>
              checkpoints = <<START_GRAPH_FV, FactorioVersion(0, 17, 79)>>

C1_Witness ==
    /\ CheckpointsKnown
    /\ IsExampleTable
    /\ Len(checkpoints) = 2

\* C2: the aggregated series of a checkpoint c has exactly the versions >= c
\* at which a cohort member holds a sample, and its value there is, metric by
\* metric, the sum over the cohort members holding a sample at that version
\* divided by their number.
C2_ChainAggregation ==
    \A c \in Processed :
        LET cohort == Holders(c) IN
        /\ c \in DOMAIN checkpoint_buckets
        /\ DOMAIN checkpoint_buckets[c] =
              {v \in Present : FvLeq(c, v) /\ \E m \in cohort : v \in DOMAIN maps[m]}
        /\ \A v \in DOMAIN checkpoint_buckets[c] :
              LET contributors == {m \in cohort : v \in DOMAIN maps[m]} IN
              \A k \in Metrics :
                 LET q == checkpoint_buckets[c][v][k] IN
                 /\ q.den > 0
                 /\ q.num * Cardinality(contributors) = SumOf(contributors, v, k) * q.den
        /\ Returned => /\ c \in DOMAIN aggregation
                       /\ aggregation[c].series = checkpoint_buckets[c]

\* a checkpoint with a cohort member that misses a later version and a map
\* outside the cohort
C2_Witness ==
    /\ Returned
    /\ \E c \in DOMAIN aggregation :
          /\ \E v \in DOMAIN aggregation[c].series :
                /\ FvLess(c, v)
                /\ \E m \in Holders(c) : v \notin DOMAIN maps[m]
                /\ Cardinality({m \in Holders(c) : v \in DOMAIN maps[m]}) = 2
          /\ \E u \in Present : FvLess(u, c)

\* C3: every divisor of the averaging is at least 1 and at most the size of
\* the checkpoint's cohort, no value is a division by zero, and no unwrap()
\* of aggregate_maps fails.
C3_DivisorBounds ==
    /\ fault # "UnwrapNone"
    /\ pc # "fault"
    /\ cp_idx > 0 =>
          LET c == checkpoints[cp_idx] IN
          /\ c \in DOMAIN checkpoint_buckets
          /\ c \in DOMAIN info_buckets
          /\ \A v \in DOMAIN checkpoint_buckets[c] :
                /\ v \in DOMAIN maps_per_checkpoint_inner_fv
                /\ maps_per_checkpoint_inner_fv[v] >= 1
                /\ maps_per_checkpoint_inner_fv[v] <= Cardinality(Holders(c))
    /\ \A c \in Processed : \A v \in DOMAIN checkpoint_buckets[c] :
          \A k \in Metrics : checkpoint_buckets[c][v][k].den # 0

\* a divisor smaller than the cohort
C3_Witness ==
    /\ Returned
    /\ cp_idx > 0
    /\ \E v \in DOMAIN maps_per_checkpoint_inner_fv :
          maps_per_checkpoint_inner_fv[v] < Cardinality(Holders(checkpoints[cp_idx]))

\* C6: on the empty table there is no checkpoint, no bucket, no division and
\* no fault, and the result is empty.
C6_EmptyTable ==
    (maps = EmptyMap /\ pc # "aggregate") =>
        /\ aggregation_versions = EmptyMap
        /\ (pc # "checkpoints" => checkpoints = <<>>)
        /\ cp_idx = 0
        /\ checkpoint_buckets = EmptyMap
        /\ info_buckets = EmptyMap
        /\ maps_per_checkpoint_inner_fv = EmptyMap
        /\ aggregation = EmptyMap
        /\ fault = "none"
        /\ pc \in {"checkpoints", "buckets", "emit_aggr"}

C6_Witness == maps = EmptyMap /\ Returned

\* A map whose earliest version is no checkpoint although an earlier
\* checkpoint exists.
LateStarters ==
    {m \in DOMAIN maps :
        /\ Earliest(m) \notin Elems(checkpoints)
        /\ \E c \in Elems(checkpoints) : FvLess(c, Earliest(m))}

\* C8 as stated: a map whose earliest version is later than a checkpoint and
\* is not itself a checkpoint is in the cohort of no checkpoint.
C8_LateStarterExcluded ==
    Returned =>
        \A m \in LateStarters : \A c \in DOMAIN aggregation :
            m \notin Elems(aggregation[c].infos)

\* C8 amended: such a map is in the cohort of no checkpoint up to its
\* earliest version, and in the cohort of a later checkpoint exactly when it
\* holds a sample at that checkpoint.
C8_LateStarterCohorts ==
    Returned =>
        \A m \in LateStarters : \A c \in Elems(checkpoints) :
            /\ c \in DOMAIN aggregation
            /\ FvLeq(c, Earliest(m)) => m \notin Elems(aggregation[c].infos)
            /\ FvLess(Earliest(m), c) =>
                  (m \in Elems(aggregation[c].infos) <=> c \in DOMAIN maps[m])

C8_Witness ==
    /\ Returned
    /\ \E m \in LateStarters : \E c \in DOMAIN aggregation :
          m \in Elems(aggregation[c].infos)

\* C10: the cohort mapping and the series mapping have the checkpoints as
\* their common key set; the result has one entry per checkpoint, with the
\* maps holding a sample at it in ascending order, each once, and with the
\* series computed for it.
C10_CohortSeriesPairing ==
    /\ DOMAIN info_buckets = Processed
    /\ DOMAIN checkpoint_buckets = Processed
    /\ Returned =>
          /\ Processed = Elems(checkpoints)
          /\ DOMAIN aggregation = Elems(checkpoints)
          /\ \A c \in DOMAIN aggregation :
                /\ aggregation[c].infos = SortedInfos(Holders(c))
                /\ aggregation[c].infos = info_buckets[c]
                /\ aggregation[c].series = checkpoint_buckets[c]

C10_Witness ==
    /\ Returned
    /\ Cardinality(DOMAIN aggregation) = 3
    /\ \E c \in DOMAIN aggregation : Len(aggregation[c].infos) = 3

----------------------------------------------------------------------------
(* Faults and outputs of a run *)

\* An output artifact exists: an SVG file or an HTML line.
OutputProduced == svgs # {} \/ html > 0

\* C4 as stated: a run that ends in a fault has produced no output.
C4_AllOrNothing == pc = "fault" => ~OutputProduced

\* The version of row i, when its column is text of three numbers.
RowHasVersion(i) == db_rows[i].col0.is_text /\ Len(db_rows[i].col0.version) = 3

RowVersion(i) ==
    LET str == db_rows[i].col0.version
    IN  [major |-> str[1], minor |-> str[2], patch |-> str[3]]

OutOfRange(fv) == FvLess(fv, START_GRAPH_FV) \/ FvLess(END_GRAPH_FV, fv)

\* C5: a row below 0.17.66 or above 0.18.45 ends the run with the range
\* fault as soon as it is read, is not inserted and not skipped, and nothing
\* is returned, aggregated or emitted; rows within the range never raise it.
C5_RangeCheck ==
    /\ \A i \in 1..row_idx :
          (RowHasVersion(i) /\ OutOfRange(RowVersion(i))) =>
              /\ i = row_idx
              /\ pc = "fault"
              /\ fault = "OutOfRangeVersion"
              /\ aggregation_versions = EmptyMap
              /\ checkpoints = <<>>
              /\ aggregation = EmptyMap
              /\ html_emitters = <<>>
              /\ ~OutputProduced
    /\ \A m \in DOMAIN maps : \A fv \in DOMAIN maps[m] : ~OutOfRange(fv)
    /\ fault = "OutOfRangeVersion" =>
          /\ row_idx >= 1
          /\ RowHasVersion(row_idx)
          /\ OutOfRange(RowVersion(row_idx))
    /\ pc \in {"aggregate", "checkpoints", "buckets", "emit_aggr", "emit_maps", "done"} =>
          /\ row_idx = Len(db_rows)
          /\ \A i \in 1..Len(db_rows) :
                /\ RowHasVersion(i)
                /\ MapInfoOf(db_rows[i].map) \in DOMAIN maps
                /\ RowVersion(i) \in DOMAIN maps[MapInfoOf(db_rows[i].map)]

\* the range fault raised by a row below the earliest version, after an
\* earlier row was inserted
C5_Witness ==
    /\ fault = "OutOfRangeVersion"
    /\ maps # EmptyMap
    /\ FvLess(RowVersion(row_idx), START_GRAPH_FV)

\* The successor on the axis: past a terminal patch the next minor's patch 0,
\* otherwise the next patch.
AxisSuccessor(fv) ==
    IF fv = FactorioVersion(0, 16, 51) \/ fv = FactorioVersion(0, 17, 79)
    THEN FactorioVersion(fv.major, fv.minor + 1, 0)
    ELSE FactorioVersion(fv.major, fv.minor, fv.patch + 1)

AxisShape ==
    /\ all_ord_fv # <<>> => all_ord_fv[1] = START_GRAPH_FV
    /\ \A i \in 1..Len(all_ord_fv) : FvLeq(all_ord_fv[i], END_GRAPH_FV)
    /\ \A i \in 1..(Len(all_ord_fv) - 1) :
          /\ FvLess(all_ord_fv[i], all_ord_fv[i + 1])
          /\ all_ord_fv[i + 1] = AxisSuccessor(all_ord_fv[i])
    /\ axis_pc \in {"retain", "done"} =>
          /\ all_ord_fv # <<>>
          /\ all_ord_fv[Len(all_ord_fv)] = END_GRAPH_FV

\* C7: iter_factorio_versions terminates, and its list starts at 0.17.66,
\* increases strictly, steps by the successor rule, holds nothing above
\* 0.18.45 and ends at 0.18.45.
C7_AxisTerminates == <>(axis_pc = "done") /\ []AxisShape

C7_Witness ==
    /\ axis_pc = "done"
    /\ FactorioVersion(0, 18, 0) \in Elems(all_ord_fv)
    /\ all_ord_fv[Len(all_ord_fv)] = END_GRAPH_FV

\* Versions around the two endpoints.
NearbyVersions ==
    {FactorioVersion(0, mi, pa) : mi \in 16..19, pa \in 0..81}

\* C9 as stated: every version within [0.17.66, 0.18.45] is on the axis, so
\* every key of a series keeps its tick through gen_svg's retain.
C9_AxisCoversRange ==
    axis_pc = "done" =>
        /\ \A v \in NearbyVersions :
              (FvLeq(START_GRAPH_FV, v) /\ FvLeq(v, END_GRAPH_FV)) =>
                  v \in Elems(all_ord_fv)
        /\ \A v \in versions_data_keys : v \in Elems(fvs)

====
